---------------------------- MODULE Spec2Model ----------------------------
(***************************************************************************)
(* A model of the TaleCast episode synchronisation engine:                 *)
(*   - Podcast::should_download  (selection policy, src/src/main.rs)       *)
(*   - Episode::download         (the transfer main.rs runs, and the       *)
(*                                resumable one of src/src/episode.rs)     *)
(*   - DownloadedEpisodes        (the ledger file and its parser)          *)
(*   - Podcast::sync and main    (per-feed loop, spawn and join)           *)
(*                                                                         *)
(* Three specifications share the variables:                               *)
(*   Spec          the whole program: main, one task per feed, several     *)
(*                 process runs over the same disk                         *)
(*   SpecSelect    should_download applied to inputs drawn in Init         *)
(*   SpecTransfer  Episode::download (both versions) called repeatedly     *)
(*                 on one episode, with failures                           *)
(***************************************************************************)
EXTENDS Integers, Sequences, FiniteSets, TLC

VARIABLES
    \* ---- the build and the clock
    build,        \* "debug" | "release": overflow checks on or off
    now,          \* current_unix(), seconds
    \* ---- the selection harness (SpecSelect)
    selMode,      \* the DownloadMode under test
    selItems,     \* the feed's items after the sort by date (main.rs:239)
    selLedger,    \* the ids of DownloadedEpisodes
    selDone,      \* the selection has been computed
    selResult     \* [panic, picked]: the indices to fetch, in fetch order

selVars == <<selMode, selItems, selLedger, selDone, selResult>>

VARIABLES
    \* ---- the program (Spec, SpecRuns)
    feeds,        \* the podcasts of podcasts.toml, 1..n in the order of their names
    runsLeft,     \* process runs that may still be started
    mainpc,       \* "idle" | "joining" | "done" | "failed" | "killed"
    joinIdx,      \* the future main awaits next (main.rs:85)
    paths,        \* main's paths: <<feed, guid>> of every file reported
    items,        \* per feed: the items of the feed, sorted by date
    mode,         \* per feed: the DownloadMode
    hook,         \* per feed: whether config.download_hook is Some
    ledger,       \* per feed: the lines of the .downloaded file, each its tokens
    downloaded,   \* per feed: Podcast::downloaded, the ids loaded at start
    pc,           \* per feed: the place of the sync task
    queue,        \* per feed: the selected episodes in fetch order
    pos,          \* per feed: the position in queue of the current episode
    file_paths,   \* per feed: sync's file_paths (guids of the files named)
    dlfile,       \* per feed, per guid: the file download() writes
    final,        \* per feed: guids whose file rename_file has renamed
    \* ---- history, read by the claims only
    fetched,      \* per feed: indices whose transfer started in this run
    transfers,    \* per feed, per guid: how many times download() returned Ok
    appends,      \* per feed: guids appended to the ledger, in order, ever
    started,      \* per feed: the ledger and the files as the current run found them
    hooked        \* per feed: guids of the paths the hook was run with, in this run

VARIABLES
    \* ---- the transfer harness (SpecTransfer): calls of Episode::download
    impl,          \* "main": main.rs:146-185 | "episode": episode.rs:43-114
    server,        \* "ranges": honours a Range header | "ignores": sends it all
    callsLeft,     \* calls of download that may still be made
    callpc,        \* "idle" | "streaming" | "ok" | "failed"
    partial_file,  \* <guid>.partial (episode.rs:45)
    ext_file,      \* the file with the final extension (main.rs:167, episode.rs:107)
    dl_bytes,      \* the local `downloaded`
    total_size,    \* the local `total_size`
    range_start,   \* the offset of the request's Range header, 0 without one
    body,          \* what is left of the response's body
    pb_position,   \* the position last given to the progress bar
    \* ---- history, read by the claims only
    before,        \* the two files as the current call found them
    written,       \* the bytes the current call has written
    prev           \* how the call before the current one ended: "none" | "ok" | "failed"

xferVars == <<impl, server, callsLeft, callpc, partial_file, ext_file, dl_bytes,
              total_size, range_start, body, pb_position, before, written, prev>>

progVars == <<feeds, runsLeft, mainpc, joinIdx, paths, items, mode, hook, ledger,
              downloaded, pc, queue, pos, file_paths, dlfile, final,
              fetched, transfers, appends, started, hooked>>

VARIABLES
    \* ---- the ledger harness (SpecLedger): append and load of one ledger file
    ledFile,       \* the lines of the file, each its whitespace-separated tokens
    ledEntries,    \* the <<guid, title>> of every append made, in order
    ledCorrupt,    \* the place of the line damaged from outside, 0 when none
    ledLoaded      \* None, or Some(what the last load returned)

ledVars == <<ledFile, ledEntries, ledCorrupt, ledLoaded>>

VARIABLES
    \* ---- the naming harness (SpecRender): one call of rename_file
    rTemplate,     \* config.name_pattern, as its tokens
    rTags,         \* whether an id3 tag set was produced, and its frames
    rOut           \* None, or Some(what the call did)

rndVars == <<rTemplate, rTags, rOut>>

-----------------------------------------------------------------------------
(* Numbers of the source *)

\* main.rs:274 and :286, the seconds of a day
SecondsPerDay == 86400

\* usize arithmetic wraps modulo 2^64 in a release build; the width is scaled
\* to 2^16 here (TLC's integers are 32 bits wide). Every index and count of
\* the model is far below it, so the comparisons come out as with 2^64.
UsizeModulus == 2 ^ 16

(* Option<T> *)
None == [some |-> FALSE, v |-> 0]
Some(x) == [some |-> TRUE, v |-> x]

\* Rust's integer division truncates toward zero (TLA+'s \div floors).
TruncDiv(a, b) ==
    LET abs(x) == IF x < 0 THEN -x ELSE x
        q == abs(a) \div abs(b)
    IN  IF (a < 0) = (b < 0) THEN q ELSE -q

\* `x as usize` of an i64
AsUsize(x) == x % UsizeModulus

-----------------------------------------------------------------------------
(* DownloadedEpisodes::contains_episode, main.rs:398-400: the key is the    *)
(* whole guid string. A guid is modelled as the sequence of its            *)
(* whitespace-separated tokens.                                            *)
contains_episode(ids, episode) == episode.guid \in ids

(* The three bounds of DownloadMode::Standard, main.rs:285-299, each as the *)
(* closure of its is_some_and: TRUE means the episode is rejected.         *)
MaxDaysRejects(max_days, t, episode) ==
    max_days.some /\ (t - episode.published) > max_days.v * SecondsPerDay

\* main.rs:290: latest_episode - max_episodes as usize, in usize.
\* "panic" in a debug build when the subtraction underflows.
MaxEpisodesDiff(max_episodes, latest_episode, bld) ==
    LET m == AsUsize(max_episodes.v)
    IN  IF m > latest_episode /\ bld = "debug"
        THEN [panic |-> TRUE, v |-> 0]
        ELSE [panic |-> FALSE, v |-> (latest_episode - m) % UsizeModulus]

EarliestRejects(earliest_date, episode) ==
    earliest_date.some /\ earliest_date.v.ts > episode.published

(* Podcast::should_download, main.rs:267-305. The result is "true",        *)
(* "false" or "panic" (division by zero, usize underflow in a debug build, *)
(* unwrap of a date that does not parse).                                  *)
should_download(ids, dmode, t, episode, latest_episode, bld) ==
    IF contains_episode(ids, episode) THEN "false"
    ELSE IF dmode.kind = "Backlog"
    THEN LET days_passed == TruncDiv(t - dmode.start, SecondsPerDay)
         IN  IF dmode.interval = 0 THEN "panic"
             ELSE LET current_backlog_index == TruncDiv(days_passed, dmode.interval)
                  IN  IF current_backlog_index >= episode.index
                      THEN "true" ELSE "false"
    ELSE IF MaxDaysRejects(dmode.max_days, t, episode) THEN "false"
    ELSE IF dmode.max_episodes.some
            /\ MaxEpisodesDiff(dmode.max_episodes, latest_episode, bld).panic
         THEN "panic"
    ELSE IF dmode.max_episodes.some
            /\ MaxEpisodesDiff(dmode.max_episodes, latest_episode, bld).v
                  > episode.index
         THEN "false"
    ELSE IF dmode.earliest_date.some /\ ~dmode.earliest_date.v.parses THEN "panic"
    ELSE IF EarliestRejects(dmode.earliest_date, episode) THEN "false"
    ELSE "true"


-----------------------------------------------------------------------------
\* Episode::new, main.rs:132-144: the Episode of an item that has all its
\* fields; the title is kept when the model gives the item one.
EpisodeOf(item, index) ==
    IF "title" \in DOMAIN item
    THEN [guid |-> item.guid, published |-> item.published, index |-> index,
          title |-> item.title]
    ELSE [guid |-> item.guid, published |-> item.published, index |-> index]

\* Faulty variant of EpisodesFrom: an item with a missing field is kept
RECURSIVE EpisodesFromKeepsAll(_, _)
EpisodesFromKeepsAll(feedItems, i) ==
    IF i > Len(feedItems) THEN <<>>
    ELSE <<EpisodeOf(feedItems[i], i - 1)>> \o EpisodesFromKeepsAll(feedItems, i + 1)

(* Podcast::load_episodes, main.rs:245-252: enumerate() numbers every item  *)
(* of the sorted feed, filter_map(Episode::new) then drops the items with  *)
(* a missing title, enclosure, guid or date; the survivors keep the index  *)
(* of their place among ALL items.                                         *)
RECURSIVE EpisodesFrom(_, _)
EpisodesFrom(feedItems, i) ==
    IF i > Len(feedItems) THEN <<>>
    ELSE LET item == feedItems[i]
             rest == EpisodesFrom(feedItems, i + 1)
         IN  IF item.valid
             THEN <<EpisodeOf(item, i - 1)>> \o rest
             ELSE rest

load_episodes(feedItems) == EpisodesFrom(feedItems, 1)

\* episodes.reverse(), main.rs:329
Reverse(s) == [i \in 1..Len(s) |-> s[Len(s) + 1 - i]]

\* episodes.sort_by_key(|ep| ep.index), main.rs:325 and :328 (a stable sort)
RECURSIVE SortByIndex(_)
SortByIndex(s) ==
    IF Len(s) <= 1 THEN s
    ELSE LET rest == SortByIndex(Tail(s))
             IsBefore(e) == e.index < s[1].index
             IsNotBefore(e) == ~IsBefore(e)
         IN  SelectSeq(rest, IsBefore) \o <<s[1]>> \o SelectSeq(rest, IsNotBefore)

\* Faulty variant of FetchOrder: the oldest first whatever the mode
FetchOrderOldestFirst(dmode, episodes) == SortByIndex(episodes)

(* Podcast::sync, main.rs:321-331: Backlog fetches the oldest first,       *)
(* Standard the newest first.                                              *)
FetchOrder(dmode, episodes) ==
    IF dmode.kind = "Backlog"
    THEN SortByIndex(episodes)
    ELSE Reverse(SortByIndex(episodes))

(* Podcast::sync, main.rs:313-331: episode_qty is the number of episodes   *)
(* that survived load_episodes; then the filter by should_download and the *)
(* sort. A panic of should_download unwinds out of the filter.             *)
SelectEpisodes(ids, dmode, t, episodes, bld) ==
    LET episode_qty == Len(episodes)
        Verdict(ep) == should_download(ids, dmode, t, ep, episode_qty, bld)
        Keep(ep) == Verdict(ep) = "true"
    IN  IF \E i \in 1..Len(episodes) : Verdict(episodes[i]) = "panic"
        THEN [panic |-> TRUE, picked |-> <<>>]
        ELSE [panic |-> FALSE,
              picked |-> FetchOrder(dmode, SelectSeq(episodes, Keep))]

-----------------------------------------------------------------------------
(* SpecSelect: the inputs of one selection, drawn from bounded sets.       *)

vars == <<build, now, selVars, progVars, xferVars, ledVars, rndVars>>

\* No podcast configured and no process: the program part of a harness state
Empty == [f \in {} |-> 0]

ProgIdle ==
    /\ feeds = {}
    /\ runsLeft = 0
    /\ mainpc = "idle"
    /\ joinIdx = 1
    /\ paths = <<>>
    /\ items = Empty /\ mode = Empty /\ hook = Empty
    /\ ledger = Empty /\ downloaded = Empty
    /\ pc = Empty /\ queue = Empty /\ pos = Empty /\ file_paths = Empty
    /\ dlfile = Empty /\ final = Empty
    /\ fetched = Empty /\ transfers = Empty /\ appends = Empty
    /\ started = Empty /\ hooked = Empty

\* No call of download under test
XferIdle ==
    /\ impl = "main" /\ server = "ranges"
    /\ callsLeft = 0 /\ callpc = "idle"
    /\ partial_file = [exists |-> FALSE, data |-> <<>>]
    /\ ext_file = [exists |-> FALSE, data |-> <<>>]
    /\ dl_bytes = 0 /\ total_size = 0 /\ range_start = 0
    /\ body = <<>> /\ pb_position = 0
    /\ before = [partial |-> [exists |-> FALSE, data |-> <<>>],
                 ext |-> [exists |-> FALSE, data |-> <<>>]]
    /\ written = <<>> /\ prev = "none"

\* No name under test
RndIdle ==
    /\ rTemplate = <<>>
    /\ rTags = [some |-> FALSE, v |-> <<>>]
    /\ rOut = None

\* No ledger file under test
LedIdle ==
    /\ ledFile = <<>>
    /\ ledEntries = <<>>
    /\ ledCorrupt = 0
    /\ ledLoaded = None

\* No selection under test: the harness part of a program state
SelIdle ==
    /\ selMode = None
    /\ selItems = <<>>
    /\ selLedger = {}
    /\ selDone = TRUE
    /\ selResult = [panic |-> FALSE, picked |-> <<>>]

MaxItems == 3          \* items in a feed listing
MaxCount == 2          \* largest max_episodes
MaxDayOffset == 2      \* now ranges over start - MaxDayOffset .. start + MaxDayOffset + 1 days

T0 == 10 * SecondsPerDay      \* backlog start, and the date of item 0

GuidOf(i) == <<"g" \o ToString(i)>>

\* Item i (0-based) of a listing whose valid flags are v: one day apart, ascending
ItemsOf(v) ==
    [i \in 1..Len(v) |->
        [guid |-> GuidOf(i - 1), valid |-> v[i],
         published |-> T0 + (i - 1) * SecondsPerDay]]

Listings ==
    { ItemsOf(v) : v \in UNION { [1..n -> BOOLEAN] : n \in 1..MaxItems } }

NowValues ==
    { T0 + d * SecondsPerDay + o : d \in (0 - MaxDayOffset)..(MaxDayOffset + 1),
                                   o \in {-1, 0} }

Dates == { [parses |-> TRUE, ts |-> T0 + SecondsPerDay],
           [parses |-> FALSE, ts |-> 0] }

StandardModes ==
    { [kind |-> "Standard", max_days |-> a, max_episodes |-> b, earliest_date |-> c] :
        a \in {None, Some(1)},
        b \in {None} \cup { Some(n) : n \in 0..MaxCount },
        c \in {None} \cup { Some(d) : d \in Dates } }

BacklogModes ==
    { [kind |-> "Backlog", start |-> T0, interval |-> i] : i \in -1..2 }

InitSelect ==
    /\ build \in {"debug", "release"}
    /\ now \in NowValues
    /\ selMode \in StandardModes \cup BacklogModes
    /\ selItems \in Listings
    /\ selLedger \in SUBSET { GuidOf(i) : i \in 0..(MaxItems - 1) }
    /\ selDone = FALSE
    /\ selResult = [panic |-> FALSE, picked |-> <<>>]
    /\ ProgIdle
    /\ XferIdle
    /\ LedIdle
    /\ RndIdle

\* load_episodes, then the filter and sort of sync
ApplySelect ==
    /\ ~selDone
    /\ selDone' = TRUE
    /\ selResult' = SelectEpisodes(selLedger, selMode, now,
                                   load_episodes(selItems), build)
    /\ UNCHANGED <<build, now, selMode, selItems, selLedger, progVars, xferVars, ledVars,
                   rndVars>>

NextSelect == ApplySelect

SpecSelect == InitSelect /\ [][NextSelect]_vars


-----------------------------------------------------------------------------
(* Claims about the selection (SpecSelect)                                 *)

selEpisodes == load_episodes(selItems)
Picked(ep) == \E j \in 1..Len(selResult.picked) : selResult.picked[j].index = ep.index
PickedIndices == { selResult.picked[j].index : j \in 1..Len(selResult.picked) }

\* The three bounds as the specification writes them, over the integers,
\* with total_count the number of episodes of the listing.
PassesMaxAge(ep) ==
    selMode.max_days.some => now - ep.published <= selMode.max_days.v * SecondsPerDay
PassesMaxCount(ep) ==
    selMode.max_episodes.some => Len(selEpisodes) - selMode.max_episodes.v <= ep.index
PassesEarliest(ep) ==
    selMode.earliest_date.some => ep.published >= selMode.earliest_date.v.ts

\* C4: in Standard mode an episode that is not in the ledger is selected if
\* and only if it passes every configured bound (max age, max count, earliest
\* date); an absent bound always passes.
C4_StandardAndSemantics ==
    (/\ selDone
     /\ selMode.kind = "Standard"
     /\ (selMode.earliest_date.some => selMode.earliest_date.v.parses))
    => /\ ~selResult.panic
       /\ \A i \in 1..Len(selEpisodes) :
            LET ep == selEpisodes[i]
            IN  ep.guid \notin selLedger =>
                  (Picked(ep) <=> (/\ PassesMaxAge(ep)
                                   /\ PassesMaxCount(ep)
                                   /\ PassesEarliest(ep)))

\* The n episodes with the highest indices
NewestN(eps, n) ==
    { eps[i].index : i \in { k \in 1..Len(eps) : Len(eps) - k < n } }

Min(a, b) == IF a < b THEN a ELSE b

\* C5: with only max_episodes = N configured and an empty ledger, the
\* selection is exactly the min(N, number of episodes) episodes with the
\* highest indices, and the evaluation does not fail when N exceeds the count.
C5_NewestNByIndex ==
    (/\ selDone
     /\ selMode.kind = "Standard"
     /\ selMode.max_episodes.some
     /\ ~selMode.max_days.some
     /\ ~selMode.earliest_date.some
     /\ selLedger = {})
    => /\ ~selResult.panic
       /\ PickedIndices =
            NewestN(selEpisodes, Min(selMode.max_episodes.v, Len(selEpisodes)))

\* C6: in Backlog mode, with days_passed = floor((now - start) / 86400) and
\* current_bucket = floor(days_passed / interval_days), an episode is
\* selected if and only if index <= current_bucket and its id is not in the
\* ledger, for every now, also now earlier than start.
C6_BacklogPacing ==
    (/\ selDone
     /\ selMode.kind = "Backlog"
     /\ selMode.interval > 0)
    => /\ ~selResult.panic
       /\ \A i \in 1..Len(selEpisodes) :
            LET ep == selEpisodes[i]
                days_passed == (now - selMode.start) \div SecondsPerDay
                current_bucket == days_passed \div selMode.interval
            IN  Picked(ep) <=>
                  (ep.index <= current_bucket /\ ep.guid \notin selLedger)


-----------------------------------------------------------------------------
(* The ledger file, main.rs:393-452                                        *)

\* The text current_unix() formats to, and tokens that parse::<i64>() accepts
TsToken == "1700000000"
NumericTokens == {TsToken, "7"}

\* The title between quotes: the model's titles hold no whitespace
TitleTokens == <<"\"title\"">>

(* DownloadedEpisodes::append, main.rs:431-447: one line                   *)
(*   "{guid} {current_unix()} \"{title}\""                                 *)
(* added at the end of the file. The line is kept as its                   *)
(* whitespace-separated tokens, which is all load() reads of it.           *)
LineOf(episode) == episode.guid \o <<TsToken>> \o TitleTokens

\* An episode's title as its lines, each its tokens with the quotes of the
\* format string; the episodes of the program have the one-line title.
TitleOf(episode) ==
    IF "title" \in DOMAIN episode THEN episode.title ELSE <<TitleTokens>>

\* writeln!, main.rs:439-445: a line break inside the title ends the line
LinesOf(episode) ==
    <<episode.guid \o <<TsToken>> \o TitleOf(episode)[1]>> \o Tail(TitleOf(episode))

append(file, episode) == file \o LinesOf(episode)

(* DownloadedEpisodes::load, main.rs:402-429: of every line that has two   *)
(* tokens the first is the id and the second must parse as i64 (expect:    *)
(* a panic otherwise); a line with fewer tokens is skipped.                *)
load(file) ==
    LET wellFormed == { i \in 1..Len(file) : Len(file[i]) >= 2 }
    IN  [panic |-> \E i \in wellFormed : file[i][2] \notin NumericTokens,
         ids   |-> { <<file[i][1]>> : i \in wellFormed }]

-----------------------------------------------------------------------------
(* Episode::download of main.rs:146-185, the transfer sync() calls.        *)

PayloadLen == 2        \* bytes (chunks of one byte) of an episode's payload

\* The body the server sends for an episode's enclosure
Payload == [i \in 1..PayloadLen |-> i]

NoFile == [exists |-> FALSE, data |-> <<>>]

\* Faulty variant of file_create: the file is opened without truncation
file_open_append(f) == [exists |-> TRUE, data |-> f.data]

\* std::fs::File::create(&path), main.rs:171: creates the file, or truncates it
file_create(f) == [exists |-> TRUE, data |-> <<>>]

\* file.write_all(&chunk), main.rs:177
write_all(f, chunk) == [f EXCEPT !.data = @ \o chunk]

\* stream.next(), main.rs:175: the next chunk of the body after n bytes
NextChunk(n) == <<Payload[n + 1]>>


-----------------------------------------------------------------------------
(* The program: main (main.rs:38-100) and one Podcast::sync task per feed. *)

NumFeeds == 2          \* podcasts configured in Spec
MaxRuns == 2           \* process runs in SpecRuns

Item(g, ok, i) == [guid |-> g, valid |-> ok, published |-> T0 + i * SecondsPerDay]

NoBounds == [kind |-> "Standard", max_days |-> None, max_episodes |-> None,
             earliest_date |-> None]

\* Feeds and their resolved configuration (Config::new, config.rs:52-137).
\* recorded: an earlier run has fetched, recorded and named the oldest episode.
SetupStandard ==
    [items |-> <<Item(<<"a">>, TRUE, 0), Item(<<"b">>, TRUE, 1), Item(<<"c">>, TRUE, 2)>>,
     mode  |-> [NoBounds EXCEPT !.max_episodes = Some(2)],
     hook  |-> TRUE, recorded |-> FALSE]
SetupBacklog ==
    [items |-> <<Item(<<"a">>, TRUE, 0), Item(<<"b">>, TRUE, 1), Item(<<"c">>, FALSE, 2)>>,
     mode  |-> [kind |-> "Backlog", start |-> T0, interval |-> 1],
     hook  |-> FALSE, recorded |-> FALSE]
\* a guid with a space in it: "a 7"
SetupSpaceGuid ==
    [items |-> <<Item(<<"a", "7">>, TRUE, 0)>>, mode |-> NoBounds,
     hook |-> FALSE, recorded |-> FALSE]
\* a guid with a space in it whose second word is no number: "b x"
SetupWordGuid ==
    [items |-> <<Item(<<"b", "x">>, TRUE, 0)>>, mode |-> NoBounds,
     hook |-> FALSE, recorded |-> FALSE]
SetupWordGuidRecorded == [SetupWordGuid EXCEPT !.recorded = TRUE]
\* a title with a line break in it: "part\ntwo"
SetupBreakTitle ==
    [items |-> <<[guid |-> <<"n">>, valid |-> TRUE, published |-> T0,
                  title |-> <<<<"\"part">>, <<"two\"">>>>]>>,
     mode |-> NoBounds, hook |-> FALSE, recorded |-> FALSE]

GuidsOf(feedItems) == { feedItems[i].guid : i \in 1..Len(feedItems) }

InitProgram(n, runs, setups) ==
    /\ build = "release"
    /\ now = T0 + SecondsPerDay
    /\ feeds = 1..n
    /\ runsLeft = runs
    /\ mainpc = "idle"
    /\ joinIdx = 1
    /\ paths = <<>>
    /\ \E su \in [1..n -> setups] :
         LET Old(f) == load_episodes(su[f].items)[1]
             Was(f) == su[f].recorded
         IN  /\ items = [f \in 1..n |-> su[f].items]
             /\ mode = [f \in 1..n |-> su[f].mode]
             /\ hook = [f \in 1..n |-> su[f].hook]
             /\ dlfile = [f \in 1..n |-> [g \in GuidsOf(su[f].items) |-> NoFile]]
             /\ transfers = [f \in 1..n |-> [g \in GuidsOf(su[f].items) |->
                                 IF Was(f) /\ g = Old(f).guid THEN 1 ELSE 0]]
             /\ ledger = [f \in 1..n |-> IF Was(f) THEN append(<<>>, Old(f)) ELSE <<>>]
             /\ final = [f \in 1..n |-> IF Was(f) THEN {Old(f).guid} ELSE {}]
             /\ appends = [f \in 1..n |-> IF Was(f) THEN <<Old(f).guid>> ELSE <<>>]
             /\ started = [f \in 1..n |->
                   [ledger |-> IF Was(f) THEN append(<<>>, Old(f)) ELSE <<>>,
                    final  |-> IF Was(f) THEN {Old(f).guid} ELSE {},
                    dlfile |-> [g \in GuidsOf(su[f].items) |-> NoFile]]]
    /\ hooked = [f \in 1..n |-> <<>>]
    /\ downloaded = [f \in 1..n |-> {}]
    /\ pc = [f \in 1..n |-> "idle"]
    /\ queue = [f \in 1..n |-> <<>>]
    /\ pos = [f \in 1..n |-> 0]
    /\ file_paths = [f \in 1..n |-> <<>>]
    /\ fetched = [f \in 1..n |-> <<>>]
    /\ SelIdle
    /\ XferIdle
    /\ LedIdle
    /\ RndIdle

cfgVars == <<build, feeds, items, mode, hook, selVars, xferVars, ledVars, rndVars>>
Terminal == {"Done", "Failed"}

(* main, main.rs:59-82: Podcast::load_all loads every feed's ledger        *)
(* (main.rs:209), then one task per podcast is spawned.                    *)
StartRun ==
    /\ mainpc \in {"idle", "done", "failed", "killed"}
    /\ runsLeft > 0
    /\ \A f \in feeds : ~load(ledger[f]).panic
    /\ runsLeft' = runsLeft - 1
    /\ now' \in {now, now + SecondsPerDay}
    /\ downloaded' = [f \in feeds |-> load(ledger[f]).ids]
    /\ pc' = [f \in feeds |-> "Fetching"]
    /\ queue' = [f \in feeds |-> <<>>]
    /\ pos' = [f \in feeds |-> 0]
    /\ file_paths' = [f \in feeds |-> <<>>]
    /\ fetched' = [f \in feeds |-> <<>>]
    /\ mainpc' = "joining"
    /\ joinIdx' = 1
    /\ paths' = <<>>
    /\ started' = [f \in feeds |->
                      [ledger |-> ledger[f], final |-> final[f], dlfile |-> dlfile[f]]]
    /\ hooked' = [f \in feeds |-> <<>>]
    /\ UNCHANGED <<cfgVars, ledger, dlfile, final, transfers, appends>>

\* main.rs:421: load() panics on a line whose second token is no i64, and
\* the process ends before any task is spawned.
StartRunPanic ==
    /\ mainpc \in {"idle", "done", "failed", "killed"}
    /\ runsLeft > 0
    /\ \E f \in feeds : load(ledger[f]).panic
    /\ runsLeft' = runsLeft - 1
    /\ now' \in {now, now + SecondsPerDay}
    /\ downloaded' = [f \in feeds |-> {}]
    /\ pc' = [f \in feeds |-> "idle"]
    /\ queue' = [f \in feeds |-> <<>>]
    /\ pos' = [f \in feeds |-> 0]
    /\ file_paths' = [f \in feeds |-> <<>>]
    /\ fetched' = [f \in feeds |-> <<>>]
    /\ mainpc' = "failed"
    /\ joinIdx' = 1
    /\ paths' = <<>>
    /\ started' = [f \in feeds |->
                      [ledger |-> ledger[f], final |-> final[f], dlfile |-> dlfile[f]]]
    /\ hooked' = [f \in feeds |-> <<>>]
    /\ UNCHANGED <<cfgVars, ledger, dlfile, final, transfers, appends>>

\* The tasks still running when the process ends are dropped where they are.
Dropped == [f \in feeds |-> IF pc[f] \in Terminal THEN pc[f] ELSE "Cancelled"]

\* main.rs:85-88: future.await?? of a task that returned Ok(path_vec)
MainJoinOk ==
    /\ mainpc = "joining"
    /\ pc[joinIdx] = "Done"
    /\ paths' = paths \o [i \in 1..Len(file_paths[joinIdx]) |->
                            <<joinIdx, file_paths[joinIdx][i]>>]
    /\ IF joinIdx + 1 \in feeds
       THEN joinIdx' = joinIdx + 1 /\ mainpc' = "joining"
       ELSE joinIdx' = joinIdx /\ mainpc' = "done"
    /\ UNCHANGED <<cfgVars, started, hooked, now, runsLeft, ledger, downloaded, pc, queue, pos,
                   file_paths, dlfile, final, fetched, transfers, appends>>

\* The places where a task is suspended at an .await (main.rs:229-232, :147,
\* :175, :370): a task is dropped by the runtime only there; between them
\* (mark_downloaded, rename_file, the hook) it runs on.
AwaitPoints == {"Fetching", "Transferring", "Streaming", "Tagging"}

\* main.rs:86: future.await?? of a task that failed or panicked: main returns
\* the error, the runtime is dropped (each task at its next .await) and the
\* process ends.
MainJoinErr ==
    /\ mainpc = "joining"
    /\ pc[joinIdx] = "Failed"
    /\ \A f \in feeds : pc[f] \in Terminal \cup AwaitPoints
    /\ mainpc' = "failed"
    /\ pc' = Dropped
    /\ UNCHANGED <<cfgVars, started, hooked, now, runsLeft, joinIdx, paths, ledger, downloaded, queue,
                   pos, file_paths, dlfile, final, fetched, transfers, appends>>

\* The process is interrupted (the spec's only cancellation: termination),
\* wherever its tasks are.
Interrupt ==
    /\ mainpc = "joining"
    /\ mainpc' = "killed"
    /\ pc' = Dropped
    /\ UNCHANGED <<cfgVars, started, hooked, now, runsLeft, joinIdx, paths, ledger, downloaded, queue,
                   pos, file_paths, dlfile, final, fetched, transfers, appends>>


-----------------------------------------------------------------------------
(* Podcast::sync, main.rs:312-390, one step per call that can fail or      *)
(* suspend. Every `?` is a step's failure outcome: the task returns Err.   *)

Cur(f) == queue[f][pos[f]]

\* Faulty variant of Fail: the error is dropped and the loop goes on with
\* the next episode
FailSkipsEpisode(f) ==
    /\ pc' = [pc EXCEPT ![f] = IF pos[f] < Len(queue[f]) THEN "Transferring" ELSE "Done"]
    /\ pos' = [pos EXCEPT ![f] = IF pos[f] < Len(queue[f]) THEN @ + 1 ELSE @]
    /\ UNCHANGED <<cfgVars, started, hooked, now, runsLeft, mainpc, joinIdx, paths, ledger,
                   downloaded, queue, file_paths, dlfile, final, fetched, transfers,
                   appends>>

\* The task returns an error (or panics): nothing else changes.
Fail(f) ==
    /\ pc' = [pc EXCEPT ![f] = "Failed"]
    /\ UNCHANGED <<cfgVars, started, hooked, now, runsLeft, mainpc, joinIdx, paths, ledger, downloaded,
                   queue, pos, file_paths, dlfile, final, fetched, transfers, appends>>

\* main.rs:313-338: the listing arrives, the episodes are selected and
\* ordered, the download folder exists. With nothing selected the loop of
\* main.rs:340 is empty and the task returns Ok(vec![]).
FetchOk(f) ==
    /\ mainpc = "joining" /\ pc[f] = "Fetching"
    /\ LET sel == SelectEpisodes(downloaded[f], mode[f], now,
                                 load_episodes(items[f]), build)
       IN  /\ queue' = [queue EXCEPT ![f] = sel.picked]
           /\ pos' = [pos EXCEPT ![f] = IF sel.picked = <<>> THEN 0 ELSE 1]
           /\ pc' = [pc EXCEPT ![f] =
                        IF sel.panic THEN "Failed"
                        ELSE IF sel.picked = <<>> THEN "Done"
                        ELSE "Transferring"]
    /\ UNCHANGED <<cfgVars, started, hooked, now, runsLeft, mainpc, joinIdx, paths, ledger, downloaded,
                   file_paths, dlfile, final, fetched, transfers, appends>>

\* Faulty variant of FetchFail: the failed run leaves an empty ledger behind
FetchFailClearsLedger(f) ==
    /\ mainpc = "joining" /\ pc[f] = "Fetching"
    /\ pc' = [pc EXCEPT ![f] = "Failed"]
    /\ ledger' = [ledger EXCEPT ![f] = <<>>]
    /\ UNCHANGED <<cfgVars, started, hooked, now, runsLeft, mainpc, joinIdx, paths,
                   downloaded, queue, pos, file_paths, dlfile, final, fetched, transfers,
                   appends>>

\* main.rs:229, :232, :237, :254 (send fails, body fails, no RSS, status not
\* success) and main.rs:338 (create_dir_all fails)
FetchFail(f) ==
    /\ mainpc = "joining" /\ pc[f] = "Fetching"
    /\ Fail(f)

\* Episode::download, main.rs:147-173: the response arrives and
\* File::create makes (or truncates) the file named from the title.
DownloadSend(f) ==
    /\ mainpc = "joining" /\ pc[f] = "Transferring"
    /\ dlfile' = [dlfile EXCEPT ![f][Cur(f).guid] = file_create(@)]
    /\ fetched' = [fetched EXCEPT ![f] = Append(@, Cur(f).index)]
    /\ pc' = [pc EXCEPT ![f] = "Streaming"]
    /\ UNCHANGED <<cfgVars, started, hooked, now, runsLeft, mainpc, joinIdx, paths, ledger, downloaded,
                   queue, pos, file_paths, final, transfers, appends>>

\* main.rs:147 (send fails) or main.rs:171 (File::create fails)
DownloadSendFail(f) ==
    /\ mainpc = "joining" /\ pc[f] = "Transferring"
    /\ Fail(f)

\* main.rs:175-181: one chunk is read and written
DownloadChunk(f) ==
    /\ mainpc = "joining" /\ pc[f] = "Streaming"
    /\ Len(dlfile[f][Cur(f).guid].data) < PayloadLen
    /\ dlfile' = [dlfile EXCEPT ![f][Cur(f).guid] =
                     write_all(@, NextChunk(Len(@.data)))]
    /\ UNCHANGED <<cfgVars, started, hooked, now, runsLeft, mainpc, joinIdx, paths, ledger, downloaded,
                   pc, queue, pos, file_paths, final, fetched, transfers, appends>>

\* Faulty variant of DownloadChunkFail: the error of the stream is dropped
\* and download returns Ok(path) with the bytes written so far
DownloadChunkErrorReturnsOk(f) ==
    /\ mainpc = "joining" /\ pc[f] = "Streaming"
    /\ Len(dlfile[f][Cur(f).guid].data) < PayloadLen
    /\ transfers' = [transfers EXCEPT ![f][Cur(f).guid] = @ + 1]
    /\ pc' = [pc EXCEPT ![f] = "Recording"]
    /\ UNCHANGED <<cfgVars, started, hooked, now, runsLeft, mainpc, joinIdx, paths, ledger, downloaded,
                   queue, pos, file_paths, dlfile, final, fetched, appends>>

\* main.rs:176 (the stream yields an error) or main.rs:177 (write_all fails)
DownloadChunkFail(f) ==
    /\ mainpc = "joining" /\ pc[f] = "Streaming"
    /\ Len(dlfile[f][Cur(f).guid].data) < PayloadLen
    /\ Fail(f)

\* main.rs:175 and :183: the stream ends, download returns Ok(path)
DownloadEnd(f) ==
    /\ mainpc = "joining" /\ pc[f] = "Streaming"
    /\ Len(dlfile[f][Cur(f).guid].data) = PayloadLen
    /\ transfers' = [transfers EXCEPT ![f][Cur(f).guid] = @ + 1]
    /\ pc' = [pc EXCEPT ![f] = "Recording"]
    /\ UNCHANGED <<cfgVars, started, hooked, now, runsLeft, mainpc, joinIdx, paths, ledger, downloaded,
                   queue, pos, file_paths, dlfile, final, fetched, appends>>

\* main.rs:361 and :307-310: mark_downloaded appends the ledger line
MarkDownloaded(f) ==
    /\ mainpc = "joining" /\ pc[f] = "Recording"
    /\ ledger' = [ledger EXCEPT ![f] = append(@, Cur(f))]
    /\ appends' = [appends EXCEPT ![f] = Append(@, Cur(f).guid)]
    /\ pc' = [pc EXCEPT ![f] = "Tagging"]
    /\ UNCHANGED <<cfgVars, started, hooked, now, runsLeft, mainpc, joinIdx, paths, downloaded,
                   queue, pos, file_paths, dlfile, final, fetched, transfers>>

\* main.rs:437 (open fails) or main.rs:445 (writeln! fails)
MarkDownloadedFail(f) ==
    /\ mainpc = "joining" /\ pc[f] = "Recording"
    /\ Fail(f)

\* main.rs:363-374: the id3 tags are written into the file
SetTags(f) ==
    /\ mainpc = "joining" /\ pc[f] = "Tagging"
    /\ pc' = [pc EXCEPT ![f] = "Naming"]
    /\ UNCHANGED <<cfgVars, started, hooked, now, runsLeft, mainpc, joinIdx, paths, ledger, downloaded,
                   queue, pos, file_paths, dlfile, final, fetched, transfers, appends>>

\* main.rs:370: set_mp3_tags(..).await? fails
SetTagsFail(f) ==
    /\ mainpc = "joining" /\ pc[f] = "Tagging"
    /\ Fail(f)

\* After the last step of an episode: the next episode, or Ok(file_paths)
AfterEpisode(f) == IF pos[f] < Len(queue[f]) THEN "Transferring" ELSE "Done"

\* Faulty variant of RenameFile: the loop goes on to the next episode while
\* the hook of this one has not run
RenameFileStartsNext(f) ==
    /\ mainpc = "joining" /\ pc[f] = "Naming"
    /\ dlfile' = [dlfile EXCEPT ![f][Cur(f).guid] = NoFile]
    /\ final' = [final EXCEPT ![f] = @ \cup {Cur(f).guid}]
    /\ file_paths' = [file_paths EXCEPT ![f] = Append(@, Cur(f).guid)]
    /\ pc' = [pc EXCEPT ![f] = AfterEpisode(f)]
    /\ pos' = [pos EXCEPT ![f] = IF AfterEpisode(f) = "Transferring" THEN @ + 1 ELSE @]
    /\ UNCHANGED <<cfgVars, started, hooked, now, runsLeft, mainpc, joinIdx, paths, ledger,
                   downloaded, queue, fetched, transfers, appends>>

\* main.rs:376-377 and :454-528: rename_file moves the file to its rendered
\* name; the path is pushed to file_paths. Without a hook the episode is done.
RenameFile(f) ==
    /\ mainpc = "joining" /\ pc[f] = "Naming"
    /\ dlfile' = [dlfile EXCEPT ![f][Cur(f).guid] = NoFile]
    /\ final' = [final EXCEPT ![f] = @ \cup {Cur(f).guid}]
    /\ file_paths' = [file_paths EXCEPT ![f] = Append(@, Cur(f).guid)]
    /\ pc' = [pc EXCEPT ![f] = IF hook[f] THEN "Hooking" ELSE AfterEpisode(f)]
    /\ pos' = [pos EXCEPT ![f] =
                  IF ~hook[f] /\ AfterEpisode(f) = "Transferring" THEN @ + 1 ELSE @]
    /\ UNCHANGED <<cfgVars, started, hooked, now, runsLeft, mainpc, joinIdx, paths, ledger, downloaded,
                   queue, fetched, transfers, appends>>

\* main.rs:490, :497-504, :526: an unwrap of rename_file panics
RenameFilePanic(f) ==
    /\ mainpc = "joining" /\ pc[f] = "Naming"
    /\ Fail(f)

\* main.rs:379-383: the hook runs with the file's path
DownloadHook(f) ==
    /\ mainpc = "joining" /\ pc[f] = "Hooking"
    /\ hooked' = [hooked EXCEPT ![f] = Append(@, Cur(f).guid)]
    /\ pc' = [pc EXCEPT ![f] = AfterEpisode(f)]
    /\ pos' = [pos EXCEPT ![f] = IF AfterEpisode(f) = "Transferring" THEN @ + 1 ELSE @]
    /\ UNCHANGED <<cfgVars, started, now, runsLeft, mainpc, joinIdx, paths, ledger, downloaded,
                   queue, file_paths, dlfile, final, fetched, transfers, appends>>

\* main.rs:382: Command::output()? fails (the script cannot be started)
DownloadHookFail(f) ==
    /\ mainpc = "joining" /\ pc[f] = "Hooking"
    /\ Fail(f)

SyncStep(f) ==
    \/ FetchOk(f) \/ FetchFail(f)
    \/ DownloadSend(f) \/ DownloadSendFail(f)
    \/ DownloadChunk(f) \/ DownloadChunkFail(f) \/ DownloadEnd(f)
    \/ MarkDownloaded(f) \/ MarkDownloadedFail(f)
    \/ SetTags(f) \/ SetTagsFail(f)
    \/ RenameFile(f) \/ RenameFilePanic(f)
    \/ DownloadHook(f) \/ DownloadHookFail(f)

Next ==
    \/ StartRun \/ StartRunPanic
    \/ MainJoinOk \/ MainJoinErr
    \/ Interrupt
    \/ \E f \in feeds : SyncStep(f)

\* The whole program, one run: NumFeeds feeds in parallel
Init == InitProgram(NumFeeds, 1, {SetupStandard, SetupBacklog, SetupWordGuidRecorded})
Spec == Init /\ [][Next]_vars

\* One feed over MaxRuns successive process runs
InitRuns ==
    InitProgram(1, MaxRuns, {SetupStandard, SetupBacklog, SetupSpaceGuid, SetupWordGuid,
                             SetupBreakTitle})
SpecRuns == InitRuns /\ [][Next]_vars


-----------------------------------------------------------------------------
(* Claims about the program (Spec, SpecRuns)                               *)

CountOf(s, x) == Cardinality({ i \in 1..Len(s) : s[i] = x })
RangeOf(s) == { s[i] : i \in 1..Len(s) }

\* The episode of feed f that has the guid g
EpisodeWithGuid(f, g) ==
    CHOOSE e \in RangeOf(load_episodes(items[f])) : e.guid = g

RECURSIVE AppendedLines(_, _)
\* What the first k appends of feed f have written, one after the other
AppendedLines(f, k) ==
    IF k = 0 THEN <<>>
    ELSE append(AppendedLines(f, k - 1), EpisodeWithGuid(f, appends[f][k]))

\* C1: in every state of a run, failed and interrupted runs included, a
\* feed's ledger holds what append() wrote for episodes whose download()
\* returned Ok and nothing else, no episode has been appended more often
\* than it was transferred, and when the append is next the file holds the
\* whole payload: the append never comes before the transfer's success.
C1_RecordedOnlyAfterTransfer ==
    \A f \in feeds :
        /\ ledger[f] = AppendedLines(f, Len(appends[f]))
        /\ \A i \in 1..Len(appends[f]) :
              /\ transfers[f][appends[f][i]] >= 1
        /\ \A g \in DOMAIN transfers[f] : CountOf(appends[f], g) <= transfers[f][g]
        /\ pc[f] = "Recording" => dlfile[f][Cur(f).guid] = [exists |-> TRUE, data |-> Payload]

\* A run that failed in the middle of a transfer (a partial file is on disk)
\* after it recorded another episode
C1_Witness ==
    \E f \in feeds :
        /\ pc[f] = "Failed"
        /\ Len(ledger[f]) >= 1
        /\ \E g \in DOMAIN dlfile[f] :
              /\ dlfile[f][g].exists
              /\ Len(dlfile[f][g].data) < PayloadLen
              /\ g \notin RangeOf(appends[f])

\* C2: when main has returned and one feed's task ended Failed, every other
\* feed's task has run to its own terminal state (Done or Failed) and the
\* files of every task that ended Done are in main's paths.
C2_FailureIsolation ==
    (mainpc \in {"done", "failed"} /\ \E f \in feeds : pc[f] = "Failed")
    => \A g \in feeds :
          /\ pc[g] \in Terminal
          /\ pc[g] = "Done" =>
                \A i \in 1..Len(file_paths[g]) : <<g, file_paths[g][i]>> \in RangeOf(paths)

\* C3: over successive runs of a feed, each loading the ledger at its start,
\* no episode id is appended to the ledger more than once.
C3_AtMostOnceRecorded ==
    \A f \in feeds : \A g \in DOMAIN transfers[f] : CountOf(appends[f], g) <= 1

\* C7: the transfers of a run start in the order of the selection, which is
\* strictly descending by index under Standard and strictly ascending under
\* Backlog.
C7_FetchOrder ==
    \A f \in feeds :
        /\ Len(fetched[f]) <= Len(queue[f])
        /\ \A i \in 1..Len(fetched[f]) : fetched[f][i] = queue[f][i].index
        /\ \A i \in 1..(Len(queue[f]) - 1) :
              IF mode[f].kind = "Standard"
              THEN queue[f][i].index > queue[f][i + 1].index
              ELSE queue[f][i].index < queue[f][i + 1].index

\* A Standard feed and a Backlog feed that each started two transfers
C7_Witness ==
    \E f, g \in feeds :
        /\ mode[f].kind = "Standard" /\ Len(fetched[f]) >= 2
        /\ mode[g].kind = "Backlog" /\ Len(fetched[g]) >= 2


-----------------------------------------------------------------------------
(* SpecTransfer: Episode::download called again and again for one episode, *)
(* in the version of main.rs (146-185) or of episode.rs (43-114).          *)

MaxCalls == 3          \* calls of download in SpecTransfer

\* The body of a 416 Range Not Satisfiable response, when it has one
ErrorPage == <<0>>

(* The server's answer to GET with "Range: bytes=k-" (episode.rs:65-70),   *)
(* k = 0 standing for no Range header: a server that honours ranges sends  *)
(* the rest of the payload, or 416 (with or without a body) when nothing   *)
(* is left; a server that ignores the header sends the whole payload.      *)
ServerBodies(srv, k) ==
    IF k = 0 \/ srv = "ignores" THEN {Payload}
    ELSE IF k < PayloadLen THEN {SubSeq(Payload, k + 1, PayloadLen)}
    ELSE {<<>>, ErrorPage}

\* episode.rs:51-61: the partial file is opened and the cursor moved to its
\* end, or the file is created; nothing of it is dropped.
partial_open(f) == [exists |-> TRUE, data |-> f.data]

\* episode.rs:49-57: `downloaded`, the length of the partial file
partial_len(f) == IF f.exists THEN Len(f.data) ELSE 0

\* main.rs:148 and episode.rs:71: response.content_length().unwrap_or(0),
\* the length of the body when the response states it, 0 when it does not
\* (a chunked response)
ContentLength(b) == {Len(b), 0}

\* main.rs:178 and episode.rs:98: min(downloaded + chunk.len(), total_size)
progress(d, n, total) == IF d + n < total THEN d + n ELSE total

InitTransfer ==
    /\ build = "release"
    /\ now = T0
    /\ SelIdle
    /\ ProgIdle
    /\ LedIdle
    /\ RndIdle
    /\ impl \in {"main", "episode"}
    /\ server \in {"ranges", "ignores"}
    /\ callsLeft = MaxCalls
    /\ callpc = "idle"
    /\ partial_file = NoFile
    /\ ext_file = NoFile
    /\ dl_bytes = 0 /\ total_size = 0 /\ range_start = 0
    /\ body = <<>> /\ pb_position = 0
    /\ before = [partial |-> NoFile, ext |-> NoFile]
    /\ written = <<>> /\ prev = "none"

restVars == <<build, now, selVars, progVars, ledVars, rndVars, impl, server>>

\* What every call does to the history when it starts
CallStarts ==
    /\ callpc \in {"idle", "ok", "failed"}
    /\ callsLeft > 0
    /\ callsLeft' = callsLeft - 1
    /\ before' = [partial |-> partial_file, ext |-> ext_file]
    /\ written' = <<>>
    /\ prev' = IF callpc = "idle" THEN "none" ELSE callpc

\* main.rs:147-173: send() returns the response, File::create makes or
\* truncates the file with the final extension (main.rs:357: position 0).
MainBegin ==
    /\ impl = "main"
    /\ CallStarts
    /\ range_start' = 0
    /\ body' = Payload
    /\ total_size' \in ContentLength(Payload)
    /\ ext_file' = file_create(ext_file)
    /\ dl_bytes' = 0
    /\ pb_position' = 0
    /\ callpc' = "streaming"
    /\ UNCHANGED <<restVars, partial_file>>

\* main.rs:147: send() fails, before any file is touched
MainBeginFail ==
    /\ impl = "main"
    /\ CallStarts
    /\ callpc' = "failed"
    /\ UNCHANGED <<restVars, partial_file, ext_file, dl_bytes, total_size,
                   range_start, body, pb_position>>

\* main.rs:175-181
MainChunk ==
    /\ impl = "main" /\ callpc = "streaming" /\ body # <<>>
    /\ ext_file' = write_all(ext_file, <<Head(body)>>)
    /\ written' = Append(written, Head(body))
    /\ body' = Tail(body)
    /\ dl_bytes' = progress(dl_bytes, 1, total_size)
    /\ pb_position' = progress(dl_bytes, 1, total_size)
    /\ UNCHANGED <<restVars, callsLeft, callpc, partial_file, total_size, range_start,
                   before, prev>>

\* main.rs:176-177: the stream or the write fails
MainChunkFail ==
    /\ impl = "main" /\ callpc = "streaming" /\ body # <<>>
    /\ callpc' = "failed"
    /\ UNCHANGED <<restVars, callsLeft, partial_file, ext_file, dl_bytes, total_size,
                   range_start, body, pb_position, before, written, prev>>

\* main.rs:183
MainEnd ==
    /\ impl = "main" /\ callpc = "streaming" /\ body = <<>>
    /\ callpc' = "ok"
    /\ UNCHANGED <<restVars, callsLeft, partial_file, ext_file, dl_bytes, total_size,
                   range_start, body, pb_position, before, written, prev>>

\* episode.rs:44-93: the partial file is opened or created, the request
\* carries a Range header when the file holds bytes, the response arrives.
EpisodeBegin ==
    /\ impl = "episode"
    /\ CallStarts
    /\ partial_file' = partial_open(partial_file)
    /\ dl_bytes' = partial_len(partial_file)
    /\ range_start' = partial_len(partial_file)
    /\ body' \in ServerBodies(server, partial_len(partial_file))
    /\ total_size' \in ContentLength(body')
    /\ pb_position' = partial_len(partial_file)
    /\ callpc' = "streaming"
    /\ UNCHANGED <<restVars, ext_file>>

\* episode.rs:70: send().await.unwrap() panics; the partial file is there
EpisodeBeginFail ==
    /\ impl = "episode"
    /\ CallStarts
    /\ partial_file' = partial_open(partial_file)
    /\ dl_bytes' = partial_len(partial_file)
    /\ range_start' = partial_len(partial_file)
    /\ callpc' = "failed"
    /\ UNCHANGED <<restVars, ext_file, total_size, body, pb_position>>

\* episode.rs:95-103
EpisodeChunk ==
    /\ impl = "episode" /\ callpc = "streaming" /\ body # <<>>
    /\ partial_file' = write_all(partial_file, <<Head(body)>>)
    /\ written' = Append(written, Head(body))
    /\ body' = Tail(body)
    /\ dl_bytes' = progress(dl_bytes, 1, total_size)
    /\ pb_position' = progress(dl_bytes, 1, total_size)
    /\ UNCHANGED <<restVars, callsLeft, callpc, ext_file, total_size, range_start,
                   before, prev>>

\* episode.rs:96-97: item.unwrap() or write_all(..).unwrap() panics
EpisodeChunkFail ==
    /\ impl = "episode" /\ callpc = "streaming" /\ body # <<>>
    /\ callpc' = "failed"
    /\ UNCHANGED <<restVars, callsLeft, partial_file, ext_file, dl_bytes, total_size,
                   range_start, body, pb_position, before, written, prev>>

\* episode.rs:105-113: the partial file is renamed to the final extension
EpisodeEnd ==
    /\ impl = "episode" /\ callpc = "streaming" /\ body = <<>>
    /\ ext_file' = [exists |-> TRUE, data |-> partial_file.data]
    /\ partial_file' = NoFile
    /\ callpc' = "ok"
    /\ UNCHANGED <<restVars, callsLeft, dl_bytes, total_size, range_start, body,
                   pb_position, before, written, prev>>

\* episode.rs:111: rename(..).unwrap() panics, or the process is stopped
\* between the last write and the rename
EpisodeEndFail ==
    /\ impl = "episode" /\ callpc = "streaming" /\ body = <<>>
    /\ callpc' = "failed"
    /\ UNCHANGED <<restVars, callsLeft, partial_file, ext_file, dl_bytes, total_size,
                   range_start, body, pb_position, before, written, prev>>

NextTransfer ==
    \/ MainBegin \/ MainBeginFail \/ MainChunk \/ MainChunkFail \/ MainEnd
    \/ EpisodeBegin \/ EpisodeBeginFail \/ EpisodeChunk \/ EpisodeChunkFail
    \/ EpisodeEnd \/ EpisodeEndFail

SpecTransfer == InitTransfer /\ [][NextTransfer]_vars


-----------------------------------------------------------------------------
(* Claims about the transfer                                               *)

\* The file a call streams into: title.ext in main.rs (main.rs:171), the
\* partial file in episode.rs (episode.rs:44-61)
WorkFile(files) == IF impl = "main" THEN files.ext ELSE files.partial

\* C8: a call that follows an interrupted one reads the k bytes already on
\* disk as the current length, requests the payload from offset k, appends
\* what it receives to those k bytes, and when it returns success the final
\* file holds exactly the payload.
C8_ResumeFromPartial ==
    (prev = "failed" /\ callpc \in {"streaming", "ok"}) =>
        /\ range_start = Len(WorkFile(before).data)
        /\ callpc = "streaming" =>
              WorkFile([partial |-> partial_file, ext |-> ext_file]).data
                  = WorkFile(before).data \o written
        /\ callpc = "ok" => ext_file = [exists |-> TRUE, data |-> Payload]

\* C9: a call that returns success, made from scratch or against the files
\* a successful call left, leaves the same artifact: the final file holds
\* the payload, byte for byte, and no partial file remains.
C9_ResumeIdempotence ==
    (callpc = "ok" /\ prev \in {"none", "ok"}) =>
        /\ ext_file = [exists |-> TRUE, data |-> Payload]
        /\ partial_file = NoFile

\* A second transfer has returned success against the files of a first one
C9_Witness ==
    /\ callpc = "ok" /\ prev = "ok"
    /\ before.ext = [exists |-> TRUE, data |-> Payload]
    /\ written = Payload

\* C10: a call that fails produces or alters no final-extension file, and
\* leaves on disk every byte that was there plus every byte it wrote.
C10_FailureKeepsPartial ==
    callpc = "failed" =>
        /\ ext_file = before.ext
        /\ (before.partial.exists \/ written # <<>>) =>
              /\ partial_file.exists
              /\ partial_file.data = before.partial.data \o written


-----------------------------------------------------------------------------
(* SpecLedger: DownloadedEpisodes::append and ::load (main.rs:402-447) on  *)
(* one ledger file that starts absent.                                     *)

MaxEntries == 2        \* appends made in SpecLedger

\* Ids as the feed gives them: "a", "b", and with a space in them "a 7", "b x"
LedgerGuids == {<<"a">>, <<"b">>, <<"a", "7">>, <<"b", "x">>}

\* Titles: "title"; "two words"; and with a line break in them
\* "part\ntwo", "part\nthe end", "part\nc 7 x"
LedgerTitles ==
    { <<TitleTokens>>,
      <<<<"\"two", "words\"">>>>,
      <<<<"\"part">>, <<"two\"">>>>,
      <<<<"\"part">>, <<"the", "end\"">>>>,
      <<<<"\"part">>, <<"c", "7", "x\"">>>> }

\* A line damaged from outside: empty, one word, two words
CorruptLines == {<<>>, <<"#junk">>, <<"#junk", "x">>}

InsertAt(file, p, line) ==
    SubSeq(file, 1, p - 1) \o <<line>> \o SubSeq(file, p, Len(file))

InitLedger ==
    /\ build = "release"
    /\ now = T0
    /\ SelIdle
    /\ ProgIdle
    /\ XferIdle
    /\ LedIdle
    /\ RndIdle

ledgerRest == <<build, now, selVars, progVars, xferVars, rndVars>>

\* mark_downloaded, main.rs:307-310: one call of append
LedgerAppend ==
    /\ Len(ledEntries) < MaxEntries
    /\ \E g \in LedgerGuids, t \in LedgerTitles :
         /\ ledFile' = append(ledFile, [guid |-> g, title |-> t])
         /\ ledEntries' = Append(ledEntries, <<g, t>>)
    /\ ledLoaded' = None
    /\ UNCHANGED <<ledgerRest, ledCorrupt>>

\* One line of the file is damaged between two runs
LedgerCorrupt ==
    /\ ledCorrupt = 0
    /\ \E p \in 1..(Len(ledFile) + 1), line \in CorruptLines :
         /\ ledFile' = InsertAt(ledFile, p, line)
         /\ ledCorrupt' = p
    /\ ledLoaded' = None
    /\ UNCHANGED <<ledgerRest, ledEntries>>

\* load_all, main.rs:209: one call of load; a panic is kept as its outcome
LedgerLoad ==
    /\ ledLoaded = None
    /\ ledLoaded' = Some(load(ledFile))
    /\ UNCHANGED <<ledgerRest, ledFile, ledEntries, ledCorrupt>>

NextLedger == LedgerAppend \/ LedgerCorrupt \/ LedgerLoad

SpecLedger == InitLedger /\ [][NextLedger]_vars

-----------------------------------------------------------------------------
(* Claims about the ledger (SpecLedger; C13 over the runs of SpecRuns)     *)

EntryGuids == { ledEntries[i][1] : i \in 1..Len(ledEntries) }

\* C11: loading a ledger that was absent and then appended to N times
\* returns, without failing, exactly the ids of the N entries.
C11_LedgerRoundTrip ==
    (ledLoaded # None /\ ledCorrupt = 0) =>
        /\ ~ledLoaded.v.panic
        /\ ledLoaded.v.ids = EntryGuids


\* The appended entries all have an id of one word and a title of one line,
\* so that every line append wrote is well-formed: id, timestamp, title
WellFormedEntries ==
    \A i \in 1..Len(ledEntries) :
        Len(ledEntries[i][1]) = 1 /\ Len(ledEntries[i][2]) = 1

\* C12: loading a ledger of N well-formed lines and one corrupted line does
\* not fail and returns exactly the N ids, whatever the corrupted line holds.
C12_CorruptLineSkipped ==
    (ledLoaded # None /\ ledCorrupt # 0 /\ WellFormedEntries) =>
        /\ ~ledLoaded.v.panic
        /\ ledLoaded.v.ids = EntryGuids


IsPrefix(s, t) == Len(s) <= Len(t) /\ SubSeq(t, 1, Len(s)) = s

\* C13: every step of a run, of a failed or interrupted one too, leaves the
\* lines a feed's ledger held unchanged and in place; a step that appends
\* adds exactly one line after them, every other step adds none.
C13_AppendOnly ==
    [][\A f \in feeds :
          /\ IsPrefix(ledger[f], ledger'[f])
          /\ Len(ledger'[f]) =
                Len(ledger[f]) + (IF appends'[f] # appends[f] THEN 1 ELSE 0)]_vars


-----------------------------------------------------------------------------
(* Claims about the steps of one feed's run (Spec, SpecRuns)               *)

\* The lines a feed's ledger has gained since the current run started
RunLines(f) == SubSeq(ledger[f], Len(started[f].ledger) + 1, Len(ledger[f]))

RECURSIVE QueueLines(_, _)
\* What append() writes for the first k episodes of the feed's queue
QueueLines(f, k) ==
    IF k = 0 THEN <<>> ELSE append(QueueLines(f, k - 1), queue[f][k])

\* How many episodes of its queue the run has recorded, in the queue's
\* order; -1 when the run's lines are not those of a prefix of the queue
Recorded(f) ==
    LET ks == { k \in 0..Len(queue[f]) : RunLines(f) = QueueLines(f, k) }
    IN  IF ks = {} THEN -1 ELSE CHOOSE k \in ks : TRUE

\* The episode at place i of the feed's queue is as the run found it: not
\* transferred, not recorded, not renamed, not hooked
Untouched(f, i) ==
    LET g == queue[f][i].guid
    IN  /\ dlfile[f][g] = started[f].dlfile[g]
        /\ (g \in final[f]) = (g \in started[f].final)
        /\ CountOf(hooked[f], g) = 0
        /\ i > Recorded(f)

\* C14: a feed's run works on one episode only when every selected episode
\* before it is recorded in the ledger and renamed, and the episodes after
\* it are untouched; and once the run is Failed it does nothing more: the
\* ledger, the files, the hook calls and the place in the queue stay as
\* they are.
C14_FailureAbortsFeed ==
    /\ [](\A f \in feeds :
            /\ Len(fetched[f]) <= pos[f]
            /\ Recorded(f) >= 0
            /\ \A i \in 1..Len(queue[f]) :
                  /\ i < pos[f] =>
                        /\ queue[f][i].guid \in final[f]
                        /\ i <= Recorded(f)
                  /\ i > pos[f] => Untouched(f, i))
    /\ [][\A f \in feeds :
            (pc[f] = "Failed" /\ runsLeft' = runsLeft) =>
                /\ pc'[f] = "Failed"
                /\ pos'[f] = pos[f] /\ fetched'[f] = fetched[f]
                /\ ledger'[f] = ledger[f] /\ dlfile'[f] = dlfile[f]
                /\ final'[f] = final[f] /\ hooked'[f] = hooked[f]
                /\ file_paths'[f] = file_paths[f]]_vars

\* One feed failed on its first episode of two, another on its second
C14_Witness ==
    \E f, g \in feeds :
        /\ pc[f] = "Failed" /\ pos[f] = 1 /\ Len(queue[f]) = 2 /\ Len(fetched[f]) = 1
        /\ pc[g] = "Failed" /\ pos[g] = 2 /\ Len(queue[g]) = 2
        /\ queue[g][1].guid \in final[g]


\* The episode at place i of the queue has gone through all its steps
Finished(f, i) ==
    /\ i <= Recorded(f)
    /\ queue[f][i].guid \in final[f]
    /\ i <= Len(file_paths[f]) /\ file_paths[f][i] = queue[f][i].guid
    /\ hook[f] => CountOf(hooked[f], queue[f][i].guid) = 1

\* C15: the steps of a feed's task come one after the other. While the
\* listing is fetched nothing is transferred or recorded; a transfer starts
\* only when every episode before it has been transferred, recorded, named
\* and hooked; the append comes after the transfer, the naming after the
\* append, the hook after the naming; so the feed has at most one transfer
\* begun and not ended.
C15_StrictSequence ==
    \A f \in feeds :
        /\ pc[f] = "Fetching" =>
              queue[f] = <<>> /\ fetched[f] = <<>> /\ RunLines(f) = <<>>
        /\ \A i \in 1..(pos[f] - 1) : Finished(f, i)
        /\ pc[f] = "Transferring" => Len(fetched[f]) = pos[f] - 1
        /\ pc[f] \in {"Streaming", "Recording", "Tagging", "Naming", "Hooking"} =>
              Len(fetched[f]) = pos[f]
        /\ pc[f] \in {"Transferring", "Streaming", "Recording"} =>
              /\ Recorded(f) = pos[f] - 1
              /\ Len(file_paths[f]) = pos[f] - 1
        /\ pc[f] = "Recording" =>
              dlfile[f][Cur(f).guid] = [exists |-> TRUE, data |-> Payload]
        /\ pc[f] \in {"Tagging", "Naming"} =>
              /\ Recorded(f) = pos[f]
              /\ Len(file_paths[f]) = pos[f] - 1
              /\ Len(hooked[f]) = IF hook[f] THEN pos[f] - 1 ELSE 0
        /\ pc[f] = "Hooking" =>
              /\ Recorded(f) = pos[f]
              /\ Len(file_paths[f]) = pos[f]
              /\ Len(hooked[f]) = IF hook[f] THEN pos[f] - 1 ELSE 0

\* A feed with a hook that is streaming its second episode
C15_Witness ==
    \E f \in feeds :
        /\ hook[f] /\ pc[f] = "Streaming" /\ pos[f] = 2
        /\ hooked[f] = <<queue[f][1].guid>>


\* A feed's task that will take no further step in this run
Ended(f) == pc[f] \in {"Done", "Failed", "Cancelled"}

\* C16: with a hook configured, the hook is run only with the path of a file
\* rename_file has renamed, in the order of the renames, at most once each,
\* and when the feed's run has ended (completed, failed or interrupted)
\* every renamed file has had its one hook call.
C16_HookOncePerRenamedFile ==
    \A f \in feeds : hook[f] =>
        /\ Len(hooked[f]) <= Len(file_paths[f])
        /\ \A i \in 1..Len(hooked[f]) : hooked[f][i] = file_paths[f][i]
        /\ Ended(f) => Len(hooked[f]) = Len(file_paths[f])


\* The feed's ledger and files are as the current run found them, and the
\* run has selected, transferred, named and hooked nothing
NothingDone(f) ==
    /\ queue[f] = <<>> /\ fetched[f] = <<>>
    /\ file_paths[f] = <<>> /\ hooked[f] = <<>>
    /\ ledger[f] = started[f].ledger
    /\ dlfile[f] = started[f].dlfile
    /\ final[f] = started[f].final

\* C17: a run that goes from fetching the listing to Failed has done
\* nothing, and stays so: the feed's ledger and files are those the run
\* started with.
C17_ListingFailure ==
    /\ [](\A f \in feeds : (pc[f] = "Failed" /\ pos[f] = 0) => NothingDone(f))
    /\ [][\A f \in feeds :
            (pc[f] = "Fetching" /\ pc'[f] = "Failed") =>
                /\ ledger'[f] = ledger[f] /\ dlfile'[f] = dlfile[f]
                /\ final'[f] = final[f] /\ queue'[f] = <<>>]_vars

\* The listing fetch failed in a run that found a ledger with a line in it
C17_Witness ==
    \E f \in feeds :
        /\ pc[f] = "Failed" /\ pos[f] = 0
        /\ Len(ledger[f]) >= 1 /\ final[f] # {}


\* The entries of the feed that Episode::new turns down
DroppedGuids(f) ==
    { items[f][i].guid : i \in { j \in 1..Len(items[f]) : ~items[f][j].valid } }

Summary == IF mainpc = "done" THEN Some(Len(paths)) ELSE None

RECURSIVE DownloadedIn(_)
\* The files of the feeds in S whose run ended Done
DownloadedIn(S) ==
    IF S = {} THEN 0
    ELSE LET f == CHOOSE x \in S : TRUE
         IN  (IF pc[f] = "Done" THEN Len(file_paths[f]) ELSE 0) + DownloadedIn(S \ {f})

\* C19: when main has returned from a run whose tasks were spawned, it has
\* reported a summary, and its count is the number of files of the feeds
\* that ended Done: a failed feed counts for nothing and does not keep the
\* summary of the others from being reported.
C19_SummaryCount ==
    (mainpc \in {"done", "failed"} /\ \A f \in feeds : pc[f] # "idle") =>
        Summary = Some(DownloadedIn(feeds))


\* C20: when a feed's run has ended Done, the ledger is the one the run
\* started from followed by one line for each selected episode, in fetch
\* order, each line starting with the episode's id, and the returned list
\* holds one path for each selected episode, in the same order; with three
\* episodes and max_episodes = 2 the fetch order is [2, 1] and the ledger
\* holds exactly the ids of episodes 1 and 2.
C20_RunOutcome ==
    \A f \in feeds : pc[f] = "Done" =>
        /\ IsPrefix(started[f].ledger, ledger[f])
        /\ Len(RunLines(f)) = Len(queue[f])
        /\ \A i \in 1..Len(queue[f]) :
              /\ i <= Len(RunLines(f)) =>
                    SubSeq(RunLines(f)[i], 1, Len(queue[f][i].guid)) = queue[f][i].guid
              /\ i <= Len(file_paths[f]) /\ file_paths[f][i] = queue[f][i].guid
              /\ i <= Len(fetched[f]) /\ fetched[f][i] = queue[f][i].index
        /\ Len(file_paths[f]) = Len(queue[f])
        /\ (/\ items[f] = SetupStandard.items
            /\ mode[f] = SetupStandard.mode
            /\ started[f].ledger = <<>>) =>
              /\ fetched[f] = <<2, 1>>
              /\ load(ledger[f]) = [panic |-> FALSE, ids |-> {<<"b">>, <<"c">>}]


\* C26: for every Backlog policy Config::new produces, interval zero or
\* negative and a start after now included, the selection returns without
\* a panic, and it selects no episode while now is earlier than start.
C26_BacklogTotal ==
    (selDone /\ selMode.kind = "Backlog") =>
        /\ ~selResult.panic
        /\ now < selMode.start => selResult.picked = <<>>


\* The bytes of the episode on disk: in the file the call streams into,
\* or in the final file once the call has returned
OnDisk ==
    IF callpc = "ok" THEN Len(ext_file.data)
    ELSE Len(WorkFile([partial |-> partial_file, ext |-> ext_file]).data)

\* C25: within one call of download the position given to the progress bar
\* after a chunk is the number of bytes on disk, it never goes down from
\* one chunk to the next, on a resumed call too, and when the call returns
\* it is the size of the whole payload.
C25_ProgressPosition ==
    /\ []((callpc = "streaming" /\ written # <<>>) => pb_position = OnDisk)
    /\ [](callpc = "ok" => pb_position = PayloadLen)
    /\ [][(callpc = "streaming" /\ callpc' = "streaming") =>
             pb_position' >= pb_position]_vars


\* C24: when a run of a feed has completed, whatever failed or was
\* interrupted in the runs before it, every episode recorded in the feed's
\* ledger has a file that rename_file has renamed.
C24_RecordedImpliesNamed ==
    \A f \in feeds :
        (mainpc = "done" /\ pc[f] = "Done") =>
            \A i \in 1..Len(appends[f]) : appends[f][i] \in final[f]


(***************************************************************************)
(* The naming harness: rename_file (main.rs:454-528) applied once to a     *)
(* name pattern.  Text is a sequence of tokens; "{", "}", ":" and "." are  *)
(* the single characters the code looks for, every other token is a run   *)
(* of characters holding none of them.                                     *)
(***************************************************************************)

\* The largest number of fragments a name pattern is assembled from
MaxParts == 3

UnknownTag == "<<unknown tag>>"
InvalidId3Tag == "<<invalid id3 tag>>"

\* A format specifier chrono knows, and one it does not
GoodSpecifier == "%Y"
BadSpecifier == "%Q"

\* The file sync hands to rename_file: <folder>/ep.mp3
DownloadedFile == [dir |-> <<<<"pod">>>>, name |-> <<"ep", ".", "mp3">>]

\* The tag sets set_mp3_tags can hand over: none (not an mp3), an empty
\* tag, a tag holding the title frame
TagSets ==
    { [some |-> FALSE, v |-> <<>>],
      [some |-> TRUE, v |-> <<>>],
      [some |-> TRUE, v |-> [id \in {<<"TIT2">>} |-> "Song"]] }

\* The fragments name patterns are assembled from
Fragments ==
    { <<"a">>, <<".">>, <<"{">>, <<"}">>,
      <<"{", "pubdate", ":", ":", GoodSpecifier, "}">>,
      <<"{", "pubdate", ":", ":", BadSpecifier, "}">>,
      <<"{", "id3", ":", ":", "TIT2", "}">>,
      <<"{", "rss", ":", ":", "episode", ":", ":", "title", "}">>,
      <<"{", "rss", ":", ":", "episode", ":", ":", "nokey", "}">>,
      <<"{", "rss", ":", ":", "channel", ":", ":", "title", "}">>,
      <<"{", "nope", ":", ":", "x", "}">>,
      <<"{", "plain", "}">> }

RECURSIVE Patterns(_)
Patterns(n) ==
    IF n = 0 THEN {<<>>}
    ELSE LET shorter == Patterns(n - 1)
         IN  shorter \cup {p \o frag : p \in shorter, frag \in Fragments}

starts_with(s, prefix) ==
    /\ Len(s) >= Len(prefix)
    /\ SubSeq(s, 1, Len(prefix)) = prefix

\* str::split_once(":"): the text after the first ':'
after_first_colon(s) ==
    LET i == CHOOSE k \in 1..Len(s) :
                 s[k] = ":" /\ \A m \in 1..(k - 1) : s[m] # ":"
    IN  SubSeq(s, i + 1, Len(s))

\* str::split_once("::"): the text after the first "::"
after_first_double_colon(s) ==
    LET i == CHOOSE k \in 1..(Len(s) - 1) :
                 /\ s[k] = ":" /\ s[k + 1] = ":"
                 /\ \A m \in 1..(k - 1) : ~(s[m] = ":" /\ s[m + 1] = ":")
    IN  SubSeq(s, i + 2, Len(s))

\* datetime.format(format).to_string(), main.rs:471-472: the Display of
\* chrono's DelayedFormat fails on a specifier it does not know, and
\* to_string panics on a failing Display
format_to_string(format) ==
    IF \E i \in 1..Len(format) : format[i] = BadSpecifier
    THEN [panic |-> TRUE, text |-> <<>>]
    ELSE [panic |-> FALSE,
          text |-> [i \in 1..Len(format) |->
                       IF format[i] = GoodSpecifier THEN "2024" ELSE format[i]]]

\* The frame looked up is whatever follows the first ':', main.rs:476
Id3Lookup(key) == after_first_colon(key)

\* The replacement of one span, main.rs:468-508.  The feed's xml holds a
\* title for the episode and for the channel and no other key.
Replacement(key, tags) ==
    IF starts_with(key, <<"pubdate", ":", ":">>)
    THEN format_to_string(after_first_double_colon(key))
    ELSE IF starts_with(key, <<"id3", ":", ":">>)
    THEN LET tag == Id3Lookup(key)
         IN  IF ~tags.some THEN [panic |-> FALSE, text |-> <<>>]
             ELSE IF tag \in DOMAIN tags.v
                  THEN [panic |-> FALSE, text |-> <<tags.v[tag]>>]
                  ELSE [panic |-> FALSE, text |-> <<InvalidId3Tag>>]
    ELSE IF starts_with(key, <<"rss", ":", ":", "episode", ":", ":">>)
    THEN IF SubSeq(key, 7, Len(key)) = <<"title">>
         THEN [panic |-> FALSE, text |-> <<"EpisodeTitle">>]
         ELSE [panic |-> TRUE, text |-> <<>>]
    ELSE IF starts_with(key, <<"rss", ":", ":", "channel", ":", ":">>)
    THEN IF SubSeq(key, 7, Len(key)) = <<"title">>
         THEN [panic |-> FALSE, text |-> <<"\"ChannelTitle\"">>]
         ELSE [panic |-> TRUE, text |-> <<>>]
    ELSE [panic |-> FALSE, text |-> <<UnknownTag>>]

\* The regex \{([^\}]+)\} at position i: the index of the closing brace of
\* the match starting there, 0 when none starts there
MatchEnd(text, i) ==
    IF text[i] # "{" THEN 0
    ELSE LET closes == {j \in (i + 1)..Len(text) : text[j] = "}"}
         IN  IF closes = {} THEN 0
             ELSE LET j == CHOOSE c \in closes : \A d \in closes : c <= d
                  IN  IF j > i + 1 THEN j ELSE 0

\* The loop over captures_iter and the trailing push_str, main.rs:463-515
RECURSIVE Render(_, _, _)
Render(text, i, tags) ==
    IF i > Len(text) THEN [panic |-> FALSE, text |-> <<>>]
    ELSE IF MatchEnd(text, i) # 0
    THEN LET j == MatchEnd(text, i)
             replacement == Replacement(SubSeq(text, i + 1, j - 1), tags)
             rest == Render(text, j + 1, tags)
         IN  [panic |-> replacement.panic \/ rest.panic,
              text |-> replacement.text \o rest.text]
    ELSE LET rest == Render(text, i + 1, tags)
         IN  [panic |-> rest.panic, text |-> <<text[i]>> \o rest.text]

\* The index of the last '.', 0 when there is none
LastDot(name) ==
    LET dots == {i \in 1..Len(name) : name[i] = "."}
    IN  IF dots = {} THEN 0
        ELSE CHOOSE i \in dots : \A k \in dots : k <= i

\* Path::extension: what follows the last '.', unless the name has no '.'
\* or only a leading one
extension(name) ==
    IF LastDot(name) <= 1 THEN None
    ELSE Some(SubSeq(name, LastDot(name) + 1, Len(name)))

\* Path::file_stem
file_stem(name) ==
    IF LastDot(name) <= 1 THEN name
    ELSE SubSeq(name, 1, LastDot(name) - 1)

\* Path::with_file_name, main.rs:519: an empty name leaves the folder
with_file_name(path, name) == [dir |-> path.dir, name |-> name]

\* PathBuf::set_extension, main.rs:520: the extension replaces whatever
\* follows the last '.' of the last component; after an empty name that
\* component is the folder; ".." has no file name and is left alone
set_extension(path, ext) ==
    IF path.name = <<".", ".">> THEN path
    ELSE IF path.name = <<>>
    THEN IF path.dir = <<>> THEN path
         ELSE [dir |-> SubSeq(path.dir, 1, Len(path.dir) - 1),
               name |-> file_stem(path.dir[Len(path.dir)]) \o <<".">> \o ext]
    ELSE [dir |-> path.dir, name |-> file_stem(path.name) \o <<".">> \o ext]

\* rename_file, main.rs:454-528
rename_file(file, name_pattern, tags) ==
    LET result == Render(name_pattern, 1, tags)
        new_name ==
            IF extension(file.name) # None
            THEN set_extension(with_file_name(file, result.text),
                               extension(file.name).v)
            ELSE with_file_name(file, result.text)
    IN  IF result.panic
        THEN [panic |-> TRUE, text |-> <<>>, path |-> file]
        ELSE [panic |-> FALSE, text |-> result.text, path |-> new_name]

InitRender ==
    /\ build = "release"
    /\ now = T0
    /\ SelIdle
    /\ ProgIdle
    /\ XferIdle
    /\ LedIdle
    /\ rTemplate \in Patterns(MaxParts)
    /\ rTags \in TagSets
    /\ rOut = None

\* sync calls rename_file, main.rs:376
RenameFileCall ==
    /\ rOut = None
    /\ rTemplate # <<>>
    /\ rOut' = Some(rename_file(DownloadedFile, rTemplate, rTags))
    /\ UNCHANGED <<build, now, selVars, progVars, xferVars, ledVars, rTemplate, rTags>>

NextRender == RenameFileCall

SpecRender == InitRender /\ [][NextRender]_vars

BraceFree(s) == \A i \in 1..Len(s) : s[i] \notin {"{", "}"}

Renamed == rOut # None

\* The spans of the harness that name no resolvable namespace
UnknownSpans == {<<"{", "nope", ":", ":", "x", "}">>, <<"{", "plain", "}">>}

\* The name pattern uses neither rss namespace
NoRssSpan == \A i \in 1..Len(rTemplate) : rTemplate[i] # "rss"

\* C21: rendering a name pattern that uses neither rss namespace never
\* aborts; text outside spans is copied verbatim and in order, and a span
\* with an unrecognised namespace or without "::" becomes <<unknown tag>>;
\* a malformed pubdate or id3 span gives a value or a sentinel.
C21_RenderNeverAborts ==
    (Renamed /\ NoRssSpan) =>
        /\ ~rOut.v.panic
        /\ BraceFree(rTemplate) => rOut.v.text = rTemplate
        /\ \A span \in UnknownSpans :
               \A i \in 0..Len(rTemplate) :
                   LET pre == SubSeq(rTemplate, 1, i)
                       post == SubSeq(rTemplate, i + Len(span) + 1, Len(rTemplate))
                   IN  (/\ rTemplate = pre \o span \o post
                        /\ BraceFree(pre) /\ BraceFree(post))
                       => rOut.v.text = pre \o <<UnknownTag>> \o post

Id3Span == <<"{", "id3", ":", ":", "TIT2", "}">>

\* C22: the span {id3::TIT2} is resolved by looking up TIT2 in the tag
\* set: the frame's content when the set holds TIT2, <<invalid id3 tag>>
\* when a set exists without it, empty text when there is no tag set.
C22_Id3Lookup ==
    (Renamed /\ rTemplate = Id3Span) =>
        /\ ~rOut.v.panic
        /\ rOut.v.text =
               IF ~rTags.some THEN <<>>
               ELSE IF <<"TIT2">> \in DOMAIN rTags.v
                    THEN <<rTags.v[<<"TIT2">>]>>
                    ELSE <<InvalidId3Tag>>

\* C23: the file is renamed to the rendered text followed by '.' and the
\* extension of the downloaded file, in the same folder, with no part of
\* the rendered text lost.
C23_ExtensionReapplied ==
    (Renamed /\ ~rOut.v.panic) =>
        rOut.v.path =
            [dir |-> DownloadedFile.dir,
             name |-> rOut.v.text \o <<".">> \o extension(DownloadedFile.name).v]

=============================================================================
